---- MODULE Spec2Model ----
(***************************************************************************)
(* Model of the clocking entry store (src/src/sqlite_store.rs) behind the  *)
(* ClockingStore trait (src/src/lib.rs).                                   *)
(*                                                                         *)
(* The table `clocking(id, title, start, end, notes)` is the sequence      *)
(* `rows`; the rowid of a row is its index (INTEGER PRIMARY KEY without    *)
(* AUTOINCREMENT and without any DELETE: max(rowid) + 1).  The TEXT        *)
(* columns start / end hold the RFC 3339 rendering of the timestamps and   *)
(* are compared as SQLite compares TEXT (bytewise), so they are kept here  *)
(* as sequences of character codes.                                        *)
(*                                                                         *)
(* `last` is the store call whose result the caller holds (NoCall between  *)
(* calls) and `prev` the table as that call found it.                      *)
(*                                                                         *)
(* `procs` and `mutex` belong to the concurrent callers of the store: the  *)
(* requests of the HTTP server (src/src/server.rs) behind its Mutex, and   *)
(* store instances opened on the same file.                                *)
(***************************************************************************)
EXTENDS Integers, Sequences, FiniteSets, TLC

VARIABLES rows, now, prev, last, procs, mutex

vars == <<rows, now, prev, last, procs, mutex>>

\* ---------------------------------------------------------------- bounds
\* Largest number of rows the table may hold.
MaxRows == 2
\* Instants are 0..MaxTime.
MaxTime == 1

\* Largest `limit` given to recent_titles / unfinished.
MaxLimit == 2

\* Largest duration, in minutes, given to strify_duration.
MaxMinutes == 3000
\* Largest number of entries in the slice given to a report view.
MaxItems == 2
\* Largest days_offset and days given to finished_by_offset.
MaxDays == 2

Times == 0..MaxTime
\* An Option<DateTime<Utc>>: an instant, or None.
None == -1
OptTimes == Times \cup {None}
Limits == 0..MaxLimit
Titles == {"A", "B"}
\* Notes passed to start_entry ('', as ClockingStore::start passes) and to a
\* finish operation ("f").
StartNotes == {<<>>}
FinishNotes == {<<102>>}

\* SQL NULL of a TEXT column (no rendered text contains the code 0).
NULL == <<0>>

\* ------------------------------------------------- timestamps as TEXT
\* Fractions of a second an instant can have, as to_rfc3339 prints them
\* (SecondsFormat::AutoSi: nothing, 3, 6 or 9 digits): "", ".100",
\* ".100001", ".500".  Instant t is second t \div 4, fraction t % 4.
FracText ==
    << <<>>, <<46, 49, 48, 48>>, <<46, 49, 48, 48, 48, 48, 49>>, <<46, 53, 48, 48>> >>

\* DateTime<Utc>::to_rfc3339: "...:SS[.fff[fff]]+00:00".  The date, hour and
\* minute fields are fixed-width and the same for every instant modelled.
to_rfc3339(t) ==
    LET s == t \div Len(FracText)
        k == t % Len(FracText)
    IN  <<48 + ((s \div 10) % 10), 48 + (s % 10)>> \o FracText[k + 1]
            \o <<43, 48, 48, 58, 48, 48>>

\* DateTime::parse_from_rfc3339(..).with_timezone(&Utc) on a stored text.
parse_from_rfc3339(s) == CHOOSE t \in Times : to_rfc3339(t) = s

\* SQLite's comparison of two TEXT values (BINARY collation, memcmp; a
\* proper prefix is smaller).
RECURSIVE TextLess(_, _)
TextLess(a, b) ==
    IF a = <<>> THEN b # <<>>
    ELSE IF b = <<>> THEN FALSE
    ELSE IF a[1] # b[1] THEN a[1] < b[1]
    ELSE TextLess(Tail(a), Tail(b))

\* ------------------------------------------------------------ queries
Ids(rs) == 1..Len(rs)

SetMax(S) == CHOOSE m \in S : \A x \in S : x <= m

\* IFNULL(notes, '')
IfNull(n) == IF n = NULL THEN <<>> ELSE n

\* Variant: the lookup sees unfinished rows only.
SelectByKey_UnfinishedOnly(rs, title, start_string) ==
    {i \in Ids(rs) : rs[i].title = title /\ rs[i].start = start_string /\ rs[i].end = NULL}

\* SELECT id FROM clocking WHERE title = ? and start = ?
SelectByKey(rs, title, start_string) ==
    {i \in Ids(rs) : rs[i].title = title /\ rs[i].start = start_string}

\* INSERT INTO clocking (title, start, notes) VALUES(?, ?, ?)
Insert(rs, title, start_string, notes) ==
    Append(rs, [title |-> title, start |-> start_string, end |-> NULL, notes |-> notes])

\* Variant: the subquery without `end is NULL`.
FinishTitleTarget_AnyEnd(rs, title) ==
    LET S == {i \in Ids(rs) : rs[i].title = title}
    IN  IF S = {} THEN {} ELSE {SetMax(S)}

\* Variant: the subquery without max(): every unfinished row of the title.
FinishTitleTarget_All(rs, title) ==
    {i \in Ids(rs) : rs[i].end = NULL /\ rs[i].title = title}

\* id in (SELECT max(id) FROM clocking WHERE end is NULL and title = ?)
FinishTitleTarget(rs, title) ==
    LET S == {i \in Ids(rs) : rs[i].end = NULL /\ rs[i].title = title}
    IN  IF S = {} THEN {} ELSE {SetMax(S)}

\* id in (SELECT max(id) FROM clocking WHERE end is NULL)
FinishAnyTarget(rs) ==
    LET S == {i \in Ids(rs) : rs[i].end = NULL}
    IN  IF S = {} THEN {} ELSE {SetMax(S)}

\* Variant: the WHERE clause without `end IS NULL`.
FinishEntryTarget_AnyEnd(rs, title, start_string, end_string) ==
    {i \in Ids(rs) : /\ rs[i].title = title
                     /\ rs[i].start = start_string
                     /\ TextLess(rs[i].start, end_string)}

\* Variant: `start <= ?` in place of `start < ?`.
FinishEntryTarget_NotStrict(rs, title, start_string, end_string) ==
    {i \in Ids(rs) : /\ rs[i].title = title
                     /\ rs[i].start = start_string
                     /\ rs[i].end = NULL
                     /\ ~TextLess(end_string, rs[i].start)}

\* WHERE title = ? and start = ? and end IS NULL and start < ?
FinishEntryTarget(rs, title, start_string, end_string) ==
    {i \in Ids(rs) : /\ rs[i].title = title
                     /\ rs[i].start = start_string
                     /\ rs[i].end = NULL
                     /\ TextLess(rs[i].start, end_string)}

\* Variant: the UPDATE without its WHERE clause.
Update_AllRows(rs, S, end_string, notes) ==
    [i \in Ids(rs) |->
        [rs[i] EXCEPT !.end = end_string, !.notes = IfNull(rs[i].notes) \o notes]]

\* Variant: `notes = ?`, the new notes in place of the old ones.
Update_ReplaceNotes(rs, S, end_string, notes) ==
    [i \in Ids(rs) |->
        IF i \in S THEN [rs[i] EXCEPT !.end = end_string, !.notes = notes] ELSE rs[i]]

\* UPDATE clocking set end = ?, notes = IFNULL(notes, '')||? where id in S
Update(rs, S, end_string, notes) ==
    [i \in Ids(rs) |->
        IF i \in S
        THEN [rs[i] EXCEPT !.end = end_string, !.notes = IfNull(rs[i].notes) \o notes]
        ELSE rs[i]]

\* The match on the number of updated rows (0, 1, anything else).
UpdatedResult(n) ==
    IF n = 0 THEN "Ok(false)" ELSE IF n = 1 THEN "Ok(true)" ELSE "Err(ImpossibleState)"

\* --------------------------------------------------------- read queries
\* A comparison `a <= b` in a WHERE clause: not true when a side is NULL.
SqlLe(a, b) == a # NULL /\ b # NULL /\ ~TextLess(b, a)

\* The orders in which `order by start` (desc when desc) may deliver the rows
\* S of rs: every arrangement in which no row comes before one that the
\* order puts first (rows with equal start in any order).
OrderByStart(rs, S, desc) ==
    LET Before(i, j) == IF desc THEN TextLess(rs[j].start, rs[i].start)
                        ELSE TextLess(rs[i].start, rs[j].start)
    IN  {f \in [1..Cardinality(S) -> S] :
            /\ \A a, b \in 1..Cardinality(S) : a # b => f[a] # f[b]
            /\ \A a, b \in 1..Cardinality(S) : a < b => ~Before(f[b], f[a])}

\* LIMIT ?
Limit(seq, n) == IF n < Len(seq) THEN SubSeq(seq, 1, n) ELSE seq

\* SqliteStore::row_to_finished_entry
row_to_finished_entry(r) ==
    [title |-> r.title,
     start |-> parse_from_rfc3339(r.start),
     end |-> parse_from_rfc3339(r.end),
     notes |-> IfNull(r.notes)]

\* SqliteStore::row_to_unfinished_entry
row_to_unfinished_entry(r) ==
    [title |-> r.title, start |-> parse_from_rfc3339(r.start), notes |-> IfNull(r.notes)]

\* Variant: the conditions on end left out.
FinishedRows_NoEnd(rs, start_string, end_string) ==
    {i \in Ids(rs) : SqlLe(start_string, rs[i].start)}

\* Variant: `start > ?` in place of `start >= ?`.
FinishedRows_StartStrict(rs, start_string, end_string) ==
    {i \in Ids(rs) : /\ TextLess(start_string, rs[i].start)
                     /\ rs[i].end # NULL
                     /\ SqlLe(rs[i].end, end_string)}

\* Variant: the range applied to start alone: start >= ? and start <= ?.
FinishedRows_ByStart(rs, start_string, end_string) ==
    {i \in Ids(rs) : /\ SqlLe(start_string, rs[i].start)
                     /\ rs[i].end # NULL
                     /\ SqlLe(rs[i].start, end_string)}

\* Variant: `end < ?` in place of `end <= ?`.
FinishedRows_EndStrict(rs, start_string, end_string) ==
    {i \in Ids(rs) : /\ SqlLe(start_string, rs[i].start)
                     /\ rs[i].end # NULL
                     /\ TextLess(rs[i].end, end_string)}

\* where start >= ? and end is not null and end <= ?
FinishedRows(rs, start_string, end_string) ==
    {i \in Ids(rs) : /\ SqlLe(start_string, rs[i].start)
                     /\ rs[i].end # NULL
                     /\ SqlLe(rs[i].end, end_string)}

\* where title = ? and end is not null
\* Variant: the condition on title left out.
FinishedOfTitle_AnyTitle(rs, title) == {i \in Ids(rs) : rs[i].end # NULL}

FinishedOfTitle(rs, title) == {i \in Ids(rs) : rs[i].title = title /\ rs[i].end # NULL}

\* Variant: `where end is not null` left out, all entries grouped.
TitleGroups_AnyEnd(rs) ==
    {i \in Ids(rs) :
        \A j \in Ids(rs) :
            rs[j].title = rs[i].title => ~TextLess(rs[i].start, rs[j].start)}

\* where end is not null group by title: one row per title, the one holding
\* max(start) of the group.
TitleGroups(rs) ==
    {i \in Ids(rs) :
        /\ rs[i].end # NULL
        /\ \A j \in Ids(rs) :
               (rs[j].end # NULL /\ rs[j].title = rs[i].title)
                   => ~TextLess(rs[i].start, rs[j].start)}

\* where end is null
\* Variant: the query without `end is null`.
UnfinishedRows_All(rs) == Ids(rs)
UnfinishedRows(rs) == {i \in Ids(rs) : rs[i].end = NULL}

\* ------------------------------------------------------------- state
NoCall ==
    [op |-> "new", title |-> "", start |-> -1, end |-> -1, notes |-> <<>>,
     result |-> "", some |-> "", limit |-> -1, out |-> <<>>]

\* The concurrent callers: request threads of the server, or store instances
\* on one file.  Each is idle, or at a position of the handler it runs.
Requests == {1, 2}
Idle == [pc |-> "idle", handler |-> "", title |-> "", start |-> -1, status |-> ""]
\* The Mutex when no guard is alive.
NoHolder == 0

Init ==
    /\ rows = <<>>
    /\ now = 0
    /\ prev = <<>>
    /\ last = NoCall
    /\ procs = [r \in Requests |-> Idle]
    /\ mutex = NoHolder

\* The caller takes the result of the call; the store is ready for the next.
Return ==
    /\ last # NoCall
    /\ last' = NoCall
    /\ prev' = rows
    /\ UNCHANGED <<rows, now, procs, mutex>>

\* The wall clock (Utc::now()) advances between calls.
Tick ==
    /\ last = NoCall
    /\ now < MaxTime
    /\ now' = now + 1
    /\ UNCHANGED <<rows, prev, last, procs, mutex>>

\* SqliteStore::start_entry
StartEntry(title, start_time, notes) ==
    LET start_time_string == to_rfc3339(start_time)
        dup == SelectByKey(rows, title, start_time_string) # {}
    IN  /\ last = NoCall
        /\ dup \/ Len(rows) < MaxRows
        /\ rows' = IF dup THEN rows ELSE Insert(rows, title, start_time_string, notes)
        /\ prev' = rows
        /\ last' = [op |-> "start_entry", title |-> title, start |-> start_time, end |-> -1,
                    notes |-> notes,
                    result |-> IF dup THEN "Err(DuplicateEntry)" ELSE "Ok(())",
                    some |-> "", limit |-> -1, out |-> <<>>]
        /\ UNCHANGED <<now, procs, mutex>>

start_entry == \E title \in Titles, start_time \in Times, notes \in StartNotes :
    StartEntry(title, start_time, notes)

\* ClockingStore::start: start_entry of an entry starting now, with empty notes.
start == \E title \in Titles : StartEntry(title, now, <<>>)

\* SqliteStore::try_finish_title
try_finish_title == \E title \in Titles, notes \in FinishNotes :
    LET end_string == to_rfc3339(now)
        S == FinishTitleTarget(rows, title)
    IN  /\ last = NoCall
        /\ rows' = Update(rows, S, end_string, notes)
        /\ prev' = rows
        /\ last' = [op |-> "try_finish_title", title |-> title, start |-> -1,
                    end |-> now, notes |-> notes,
                    result |-> UpdatedResult(Cardinality(S)), some |-> "",
                    limit |-> -1, out |-> <<>>]
        /\ UNCHANGED <<now, procs, mutex>>

\* SqliteStore::try_finish_any
try_finish_any == \E notes \in FinishNotes :
    LET end_string == to_rfc3339(now)
        S == FinishAnyTarget(rows)
    IN  /\ last = NoCall
        /\ rows' = Update(rows, S, end_string, notes)
        /\ prev' = rows
        /\ last' = [op |-> "try_finish_any", title |-> "", start |-> -1,
                    end |-> now, notes |-> notes,
                    result |-> IF S = {} THEN "Ok(None)" ELSE "Ok(Some)",
                    some |-> IF S = {} THEN "" ELSE rows[SetMax(S)].title,
                    limit |-> -1, out |-> <<>>]
        /\ UNCHANGED <<now, procs, mutex>>

\* SqliteStore::try_finish_entry
TryFinishEntry(title, start_time, end_time, notes) ==
    LET start_string == to_rfc3339(start_time)
        end_string == to_rfc3339(end_time)
        S == FinishEntryTarget(rows, title, start_string, end_string)
    IN  /\ last = NoCall
        /\ rows' = Update(rows, S, end_string, notes)
        /\ prev' = rows
        /\ last' = [op |-> "try_finish_entry", title |-> title, start |-> start_time,
                    end |-> end_time,
                    notes |-> notes,
                    result |-> UpdatedResult(Cardinality(S)), some |-> "",
                    limit |-> -1, out |-> <<>>]
        /\ UNCHANGED <<now, procs, mutex>>

try_finish_entry ==
    \E title \in Titles, start_time \in Times, end_time \in Times, notes \in FinishNotes :
        TryFinishEntry(title, start_time, end_time, notes)

\* ClockingStore::try_finish_entry_now: try_finish_entry with end = now.
try_finish_entry_now == \E title \in Titles, start_time \in Times, notes \in FinishNotes :
    TryFinishEntry(title, start_time, now, notes)

\* SqliteStore::finished
FinishedQuery(query_start, query_end) ==
    LET start_string == to_rfc3339(query_start)
        end_string == IF query_end = None THEN to_rfc3339(now) ELSE to_rfc3339(query_end)
        S == FinishedRows(rows, start_string, end_string)
    IN  /\ last = NoCall
        /\ \E r \in OrderByStart(rows, S, FALSE) :
               last' = [op |-> "finished", title |-> "", start |-> query_start,
                        end |-> query_end, notes |-> <<>>,
                        result |-> IF \E i \in S : rows[i].end = NULL THEN "panic" ELSE "Ok",
                        some |-> "", limit |-> -1,
                        out |-> IF \E i \in S : rows[i].end = NULL THEN <<>>
                                ELSE [k \in DOMAIN r |-> row_to_finished_entry(rows[r[k]])]]
        /\ prev' = rows
        /\ UNCHANGED <<rows, now, procs, mutex>>

finished == \E query_start \in Times, query_end \in OptTimes :
    FinishedQuery(query_start, query_end)

\* finished_by_offset: the bounds are resolved without the store and handed
\* to finished.  The instants of the model are those of one local day: the
\* start bound, a midnight, is instant 0; the end bound is absent, the same
\* midnight, or a later midnight, which every instant precedes.
finished_by_offset == \E query_end \in {None, 0, MaxTime} :
    FinishedQuery(0, query_end)

\* finished_by_date_str once its strings are read: an invalid range is
\* answered without the store, a valid one (the day of the model, 00:00:00
\* to 23:59:59) is handed to finished.
finished_by_date_range == \E valid \in BOOLEAN :
    IF ~valid
    THEN /\ last = NoCall
         /\ last' = [op |-> "finished_by_date_str", title |-> "", start |-> -1,
                     end |-> -1, notes |-> <<>>, result |-> "Err(InvalidInput)",
                     some |-> "", limit |-> -1, out |-> <<>>]
         /\ prev' = rows
         /\ UNCHANGED <<rows, now, procs, mutex>>
    ELSE FinishedQuery(0, MaxTime)

\* SqliteStore::latest_finished
latest_finished == \E title \in Titles :
    LET S == FinishedOfTitle(rows, title)
    IN  /\ last = NoCall
        /\ \E r \in OrderByStart(rows, S, TRUE) :
               last' = [op |-> "latest_finished", title |-> title, start |-> -1,
                        end |-> -1, notes |-> <<>>,
                        result |-> IF r = <<>> THEN "Ok(None)" ELSE "Ok(Some)",
                        some |-> "", limit |-> 1,
                        out |-> [k \in DOMAIN Limit(r, 1) |-> row_to_finished_entry(rows[r[k]])]]
        /\ prev' = rows
        /\ UNCHANGED <<rows, now, procs, mutex>>

\* SqliteStore::recent_titles
recent_titles == \E limit \in Limits :
    LET S == TitleGroups(rows)
    IN  /\ last = NoCall
        /\ \E r \in OrderByStart(rows, S, TRUE) :
               last' = [op |-> "recent_titles", title |-> "", start |-> -1,
                        end |-> -1, notes |-> <<>>, result |-> "Ok",
                        some |-> "", limit |-> limit,
                        out |-> [k \in DOMAIN Limit(r, limit) |-> rows[r[k]].title]]
        /\ prev' = rows
        /\ UNCHANGED <<rows, now, procs, mutex>>

\* SqliteStore::unfinished
unfinished == \E limit \in Limits :
    LET S == UnfinishedRows(rows)
    IN  /\ last = NoCall
        /\ \E r \in OrderByStart(rows, S, TRUE) :
               last' = [op |-> "unfinished", title |-> "", start |-> -1,
                        end |-> -1, notes |-> <<>>, result |-> "Ok",
                        some |-> "", limit |-> limit,
                        out |-> [k \in DOMAIN Limit(r, limit) |->
                                    row_to_unfinished_entry(rows[r[k]])]]
        /\ prev' = rows
        /\ UNCHANGED <<rows, now, procs, mutex>>

Next ==
    \/ Return
    \/ Tick
    \/ start_entry
    \/ start
    \/ try_finish_title
    \/ try_finish_any
    \/ try_finish_entry
    \/ try_finish_entry_now
    \/ finished
    \/ finished_by_offset
    \/ finished_by_date_range
    \/ latest_finished
    \/ recent_titles
    \/ unfinished

Spec == Init /\ [][Next]_vars


\* --------------------------------------------- starts with any title text
\* The title texts a caller can pass, the empty one included.
InputTitles == {"", "A"}

\* ClockingStore::start, title unrestricted
start_input == \E title \in InputTitles : StartEntry(title, now, <<>>)

\* SqliteStore::start_entry, title unrestricted
start_entry_input == \E title \in InputTitles, start_time \in Times, notes \in StartNotes :
    StartEntry(title, start_time, notes)

\* server.rs api_start: BadRequest for an empty title, else store.start(title)
\* with Ok mapped to Status::Ok and any Err to InternalServerError.
api_start == \E title \in InputTitles :
    LET start_time_string == to_rfc3339(now)
        dup == SelectByKey(rows, title, start_time_string) # {}
    IN  /\ last = NoCall
        /\ title = "" \/ dup \/ Len(rows) < MaxRows
        /\ rows' = IF title = "" \/ dup THEN rows
                   ELSE Insert(rows, title, start_time_string, <<>>)
        /\ prev' = rows
        /\ last' = [op |-> "api_start", title |-> title, start |-> now, end |-> -1,
                    notes |-> <<>>,
                    result |-> IF title = "" THEN "BadRequest"
                               ELSE IF dup THEN "InternalServerError" ELSE "Ok",
                    some |-> "", limit |-> -1, out |-> <<>>]
        /\ UNCHANGED <<now, procs, mutex>>

NextInput ==
    \/ Return
    \/ Tick
    \/ start_input
    \/ start_entry_input
    \/ api_start
    \/ try_finish_any

SpecInput == Init /\ [][NextInput]_vars


\* ------------------------------------------------------- the HTTP server
\* Handlers that read the store with one store call, and the titles a
\* request carries.
ReadHandlers == {"api_recent", "api_latest", "api_unfinished", "api_report",
                 "api_report_by_date"}
Handlers == ReadHandlers \cup {"api_start", "api_finish"}
ServerTitles == {"", "A"}

\* Variant: lock() that does not wait for the guard of another request.
CanLock_Always(m) == TRUE

\* config.lock(): blocks until no guard is alive.
CanLock(m) == m = NoHolder

\* Variant: the guard outlives the handler.
DropGuard_Leak(m) == m

\* The MutexGuard goes out of scope when the handler returns.
DropGuard(m) == NoHolder

\* The starts that requests have in progress: they bound the table.
StartsInProgress ==
    {q \in Requests : procs[q].handler = "api_start"
                      /\ procs[q].pc \in {"lock", "select", "insert"}}

\* The clock of the server.
ServerTick ==
    /\ now < MaxTime
    /\ now' = now + 1
    /\ UNCHANGED <<rows, prev, last, procs, mutex>>

\* Rocket routes a request to its handler.  api_start answers BadRequest to
\* an empty title without locking; every other path begins with lock().
Request(r) == \E handler \in Handlers, title \in ServerTitles :
    /\ procs[r].pc = "idle"
    /\ handler = "api_start" =>
           (title = "" \/ Len(rows) + Cardinality(StartsInProgress) < MaxRows)
    /\ handler \in ReadHandlers \ {"api_latest"} => title = ""
    /\ procs' = [procs EXCEPT ![r] =
                    IF handler = "api_start" /\ title = ""
                    THEN [Idle EXCEPT !.pc = "done", !.handler = handler,
                                      !.status = "BadRequest"]
                    ELSE [Idle EXCEPT !.pc = "lock", !.handler = handler,
                                      !.title = title]]
    /\ UNCHANGED <<rows, now, prev, last, mutex>>

\* config.lock().unwrap()
Lock(r) ==
    /\ procs[r].pc = "lock"
    /\ CanLock(mutex)
    /\ mutex' = r
    /\ procs' = [procs EXCEPT ![r].pc =
                    IF procs[r].handler = "api_start" THEN "select"
                    ELSE IF procs[r].handler = "api_finish" THEN "update"
                    ELSE "query"]
    /\ UNCHANGED <<rows, now, prev, last>>

\* api_start: store.start(title) reads Utc::now() and runs the SELECT of
\* start_entry; a row found ends the call with DuplicateEntry.
StoreSelect(r) ==
    LET dup == SelectByKey(rows, procs[r].title, to_rfc3339(now)) # {}
    IN  /\ procs[r].pc = "select"
        /\ procs' = [procs EXCEPT ![r] =
                        IF dup
                        THEN [@ EXCEPT !.pc = "unlock", !.start = now,
                                       !.status = "InternalServerError"]
                        ELSE [@ EXCEPT !.pc = "insert", !.start = now]]
        /\ UNCHANGED <<rows, now, prev, last, mutex>>

\* api_start: the INSERT of start_entry.
StoreInsert(r) ==
    /\ procs[r].pc = "insert"
    /\ rows' = Insert(rows, procs[r].title, to_rfc3339(procs[r].start), <<>>)
    /\ procs' = [procs EXCEPT ![r] = [@ EXCEPT !.pc = "unlock", !.status = "Ok"]]
    /\ UNCHANGED <<now, prev, last, mutex>>

\* api_finish: store.try_finish_title(title, notes)
StoreUpdate(r) == \E notes \in FinishNotes :
    LET S == FinishTitleTarget(rows, procs[r].title)
        result == UpdatedResult(Cardinality(S))
    IN  /\ procs[r].pc = "update"
        /\ rows' = Update(rows, S, to_rfc3339(now), notes)
        /\ procs' = [procs EXCEPT ![r] =
                        [@ EXCEPT !.pc = "unlock",
                                  !.status = IF result = "Ok(true)" THEN "Ok"
                                             ELSE IF result = "Ok(false)" THEN "NotFound"
                                             ELSE "InternalServerError"]]
        /\ UNCHANGED <<now, prev, last, mutex>>

\* The one store call of a reading handler.
StoreQuery(r) ==
    /\ procs[r].pc = "query"
    /\ procs' = [procs EXCEPT ![r] = [@ EXCEPT !.pc = "unlock", !.status = "Ok"]]
    /\ UNCHANGED <<rows, now, prev, last, mutex>>

\* The handler returns and its guard is dropped.
Unlock(r) ==
    /\ procs[r].pc = "unlock"
    /\ mutex' = DropGuard(mutex)
    /\ procs' = [procs EXCEPT ![r].pc = "done"]
    /\ UNCHANGED <<rows, now, prev, last>>

\* The response is sent; the thread takes the next request.
Respond(r) ==
    /\ procs[r].pc = "done"
    /\ procs' = [procs EXCEPT ![r] = Idle]
    /\ UNCHANGED <<rows, now, prev, last, mutex>>

NextServer ==
    \/ ServerTick
    \/ \E r \in Requests : Request(r)
    \/ \E r \in Requests : Lock(r)
    \/ \E r \in Requests : StoreSelect(r)
    \/ \E r \in Requests : StoreInsert(r)
    \/ \E r \in Requests : StoreUpdate(r)
    \/ \E r \in Requests : StoreQuery(r)
    \/ \E r \in Requests : Unlock(r)
    \/ \E r \in Requests : Respond(r)

SpecServer == Init /\ [][NextServer]_vars

\* The handler's thread runs on (weak fairness of its own steps) and a
\* thread blocked in lock() is not passed over for ever (strong fairness).
FairServer ==
    \A r \in Requests :
        /\ SF_vars(Lock(r))
        /\ WF_vars(StoreSelect(r) \/ StoreInsert(r) \/ StoreUpdate(r)
                   \/ StoreQuery(r) \/ Unlock(r) \/ Respond(r))

LiveServer == Init /\ [][NextServer]_vars /\ FairServer

\* ------------------------------------------- the server with a failing store
\* A store call may return Err (the file locked by another process, an I/O
\* error), and finished_by_offset panics on an offset of more days than the
\* calendar has.  The handlers that unwrap() the result panic with their
\* guard alive; Rocket answers 500 and the thread serves on.
UnwrapHandlers == {"api_recent", "api_latest", "api_unfinished", "api_report"}

\* The Mutex after a guard was dropped by a panicking thread: unlocked and
\* poisoned, lock() returns Err from then on.
Poisoned == -1

\* The store call of a reading handler fails: unwrap() panics and the guard
\* is dropped while unwinding; api_report_by_date answers BadRequest.
StoreQueryFails(r) ==
    /\ procs[r].pc = "query"
    /\ IF procs[r].handler \in UnwrapHandlers
       THEN /\ mutex' = Poisoned
            /\ procs' = [procs EXCEPT ![r] = [@ EXCEPT !.pc = "done", !.status = "panic"]]
       ELSE /\ mutex' = mutex
            /\ procs' = [procs EXCEPT ![r] =
                            [@ EXCEPT !.pc = "unlock", !.status = "BadRequest"]]
    /\ UNCHANGED <<rows, now, prev, last>>

\* The store call of api_start or api_finish returns Err: the match answers
\* InternalServerError and the handler returns.
StoreWriteFails(r) ==
    /\ procs[r].pc \in {"select", "insert", "update"}
    /\ procs' = [procs EXCEPT ![r] =
                    [@ EXCEPT !.pc = "unlock", !.status = "InternalServerError"]]
    /\ UNCHANGED <<rows, now, prev, last, mutex>>

\* config.lock().unwrap() on the poisoned Mutex: lock() returns
\* Err(PoisonError), unwrap() panics before any store call.
LockPoisoned(r) ==
    /\ procs[r].pc = "lock"
    /\ mutex = Poisoned
    /\ procs' = [procs EXCEPT ![r] = [@ EXCEPT !.pc = "done", !.status = "PoisonError"]]
    /\ UNCHANGED <<rows, now, prev, last, mutex>>

NextFail ==
    \/ ServerTick
    \/ \E r \in Requests : Request(r)
    \/ \E r \in Requests : Lock(r)
    \/ \E r \in Requests : StoreSelect(r)
    \/ \E r \in Requests : StoreInsert(r)
    \/ \E r \in Requests : StoreUpdate(r)
    \/ \E r \in Requests : StoreQuery(r)
    \/ \E r \in Requests : Unlock(r)
    \/ \E r \in Requests : Respond(r)
    \/ \E r \in Requests : StoreQueryFails(r)
    \/ \E r \in Requests : StoreWriteFails(r)
    \/ \E r \in Requests : LockPoisoned(r)

SpecFail == Init /\ [][NextFail]_vars


\* ------------------------------------- store instances on the same file
\* start_entry runs its SELECT and its INSERT as two statements, each its
\* own implicit transaction; another connection to the file may run a
\* statement between them.
\* SqliteStore::start_entry up to the result of the SELECT
StartEntrySelect(c) == \E title \in Titles, start_time \in Times :
    LET dup == SelectByKey(rows, title, to_rfc3339(start_time)) # {}
        inserting == {q \in Requests : procs[q].pc = "insert"}
    IN  /\ procs[c].pc = "idle"
        /\ dup \/ Len(rows) + Cardinality(inserting) < MaxRows
        /\ procs' = [procs EXCEPT ![c] =
                        [pc |-> IF dup THEN "done" ELSE "insert",
                         handler |-> "start_entry", title |-> title,
                         start |-> start_time,
                         status |-> IF dup THEN "Err(DuplicateEntry)" ELSE ""]]
        /\ UNCHANGED <<rows, now, prev, last, mutex>>

\* SqliteStore::start_entry from the INSERT on
StartEntryInsert(c) ==
    /\ procs[c].pc = "insert"
    /\ procs[c].handler = "start_entry"
    /\ rows' = Insert(rows, procs[c].title, to_rfc3339(procs[c].start), <<>>)
    /\ procs' = [procs EXCEPT ![c] = [@ EXCEPT !.pc = "done", !.status = "Ok(())"]]
    /\ UNCHANGED <<now, prev, last, mutex>>

\* The caller of the instance takes the result.
StartEntryReturn(c) ==
    /\ procs[c].pc = "done"
    /\ procs[c].handler = "start_entry"
    /\ procs' = [procs EXCEPT ![c] = Idle]
    /\ UNCHANGED <<rows, now, prev, last, mutex>>

NextRace ==
    \/ \E c \in Requests : StartEntrySelect(c)
    \/ \E c \in Requests : StartEntryInsert(c)
    \/ \E c \in Requests : StartEntryReturn(c)

SpecRace == Init /\ [][NextRace]_vars

\* ------------------------------------- the start command and other callers
\* The command `clocking start TITLE` is caller 1: it starts the entry, waits
\* for the notes on its standard input, and finishes.  Between its two store
\* calls other processes call start, try_finish_title and try_finish_any on
\* the same file (the store actions above).

\* Commands::Start up to "(Started)": store.start(&title)?, an error ends
\* the command.
cli_start == \E title \in Titles :
    LET start_time_string == to_rfc3339(now)
    IN  /\ last = NoCall
        /\ procs[1].pc = "idle"
        /\ SelectByKey(rows, title, start_time_string) = {}
        /\ Len(rows) < MaxRows
        /\ rows' = Insert(rows, title, start_time_string, <<>>)
        /\ prev' = rows'
        /\ procs' = [procs EXCEPT ![1] =
                        [pc |-> "read_to_end", handler |-> "Commands::Start",
                         title |-> title, start |-> now, status |-> "(Started)"]]
        /\ UNCHANGED <<now, last, mutex>>

\* Commands::Start from the end of the notes on: try_finish_any(&notes), and
\* "(Finished)" when it is_ok().
cli_finish == \E notes \in FinishNotes :
    LET end_string == to_rfc3339(now)
        S == FinishAnyTarget(rows)
    IN  /\ last = NoCall
        /\ procs[1].pc = "read_to_end"
        /\ rows' = Update(rows, S, end_string, notes)
        /\ prev' = rows
        /\ last' = [op |-> "Commands::Start", title |-> procs[1].title,
                    start |-> procs[1].start, end |-> now, notes |-> notes,
                    result |-> "(Finished)",
                    some |-> IF S = {} THEN "" ELSE rows[SetMax(S)].title,
                    limit |-> -1, out |-> <<>>]
        /\ procs' = [procs EXCEPT ![1] = Idle]
        /\ UNCHANGED <<now, mutex>>

NextCli ==
    \/ Return
    \/ Tick
    \/ start
    \/ try_finish_title
    \/ try_finish_any
    \/ cli_start
    \/ cli_finish

SpecCli == Init /\ [][NextCli]_vars


\* ---------------------------------------------------------- report views
HOUR_MINUTES == 60
DAY_MINUTES == HOUR_MINUTES * 24

\* format!("{}", n) of a non-negative integer: its decimal digits.
RECURSIVE Dec(_)
Dec(n) == IF n < 10 THEN <<48 + n>> ELSE Dec(n \div 10) \o <<48 + (n % 10)>>

\* Variant: "{}" in place of "{:0>2}".
Pad2_None(n) == Dec(n)

\* format!("{:0>2}", n): the digits, filled with '0' on the left to width 2.
Pad2(n) == IF Len(Dec(n)) < 2 THEN <<48>> \o Dec(n) ELSE Dec(n)

\* strify_duration (views.rs, and the same text in lib.rs) of a duration of
\* total_minutes whole minutes.
strify_duration(total_minutes) ==
    IF total_minutes < HOUR_MINUTES
    THEN <<48, 58>> \o Pad2(total_minutes)
    ELSE IF total_minutes < DAY_MINUTES
    THEN LET hours == total_minutes \div HOUR_MINUTES
             minutes == total_minutes % HOUR_MINUTES
         IN  Dec(hours) \o <<58>> \o Pad2(minutes)
    ELSE LET days == total_minutes \div DAY_MINUTES
             remains == total_minutes % DAY_MINUTES
             hours == remains \div HOUR_MINUTES
             minutes == remains % HOUR_MINUTES
         IN  Dec(days) \o <<58>> \o Pad2(hours) \o <<58>> \o Pad2(minutes)

\* A caller renders a duration.
call_strify_duration ==
    /\ last = NoCall
    /\ \E total_minutes \in 0..MaxMinutes :
           last' = [op |-> "strify_duration", minutes |-> total_minutes,
                    out |-> strify_duration(total_minutes)]
    /\ prev' = rows
    /\ UNCHANGED <<rows, now, procs, mutex>>


\* Local date-times are seconds since local midnight of date 0; an entry of
\* a slice given to a view is finished (its end is Some).
ViewDates == {0, 1}
from_hms(h, m, s) == h * 3600 + m * 60 + s
ClockTimes == {from_hms(8, 0, 0), from_hms(9, 0, 0), from_hms(10, 0, 0),
               from_hms(10, 30, 0), from_hms(21, 0, 0)}
and_time(date, time) == date * 86400 + time
date_naive(dt) == dt \div 86400
\* Duration::num_minutes: whole minutes, rounded towards zero.
num_minutes(duration) ==
    IF duration >= 0 THEN duration \div 60 ELSE 0 - ((0 - duration) \div 60)
ViewItems ==
    {[title |-> t, start |-> and_time(d, a), end |-> and_time(d, b)] :
        t \in Titles, d \in ViewDates,
        a \in {x \in ClockTimes : x < from_hms(21, 0, 0)},
        b \in {x \in ClockTimes : x > from_hms(8, 0, 0)}}
ItemSlices == UNION {[1..n -> {i \in ViewItems : i.start < i.end}] : n \in 0..MaxItems}

\* Map::new()
EmptyMap == [d \in {} |-> 0]

\* The keys of a BTreeMap in the order its iterator yields them.
KeysInOrder(S) ==
    CHOOSE f \in [1..Cardinality(S) -> S] :
        \A a, b \in 1..Cardinality(S) : a < b => f[a] < f[b]

\* Variant: or_insert alone, the and_modify that adds left out.
DailySummaryAdd_Replace(view, date, duration) ==
    [d \in DOMAIN view \cup {date} |-> IF d = date THEN duration ELSE view[d]]

\* view.entry(start).and_modify(|dur| *dur = *dur + duration).or_insert(duration)
DailySummaryAdd(view, date, duration) ==
    IF date \in DOMAIN view
    THEN [view EXCEPT ![date] = @ + duration]
    ELSE [d \in DOMAIN view \cup {date} |-> IF d = date THEN duration ELSE view[d]]

\* DailySummaryView::new: the loop over items from item k on.
RECURSIVE DailySummaryLoop(_, _, _)
DailySummaryLoop(items, k, view) ==
    IF k > Len(items) THEN view
    ELSE DailySummaryLoop(items, k + 1,
             DailySummaryAdd(view, date_naive(items[k].start),
                             items[k].end - items[k].start))

DailySummaryView_new(items) == DailySummaryLoop(items, 1, EmptyMap)

\* fmt of DailySummaryView: daily_total after the first k dates.
RECURSIVE DailyTotal(_, _, _)
DailyTotal(view, keys, k) ==
    IF k = 0 THEN 0 ELSE DailyTotal(view, keys, k - 1) + view[keys[k]]

\* fmt of DailySummaryView: one line per date, and the "(Total)" line when
\* the view has more than one date.
DailySummaryView_fmt(view) ==
    LET keys == KeysInOrder(DOMAIN view)
    IN  [lines |-> [k \in DOMAIN keys |->
                       [date |-> keys[k], text |-> strify_duration(num_minutes(view[keys[k]]))]],
         total |-> IF Cardinality(DOMAIN view) > 1
                   THEN <<strify_duration(num_minutes(DailyTotal(view, keys, Len(keys))))>>
                   ELSE <<>>]

\* Ord of the titles as String.
TitleRank == [t \in Titles |-> IF t = "A" THEN 1 ELSE 2]

\* The arrangements of a finite set in a sequence.
Permutations_(S) ==
    {f \in [1..Cardinality(S) -> S] :
        \A a, b \in 1..Cardinality(S) : a # b => f[a] # f[b]}

\* ItemDetailView::new: a HashMap from title to the efforts of the title in
\* the order of the slice; into_values() yields the groups in the order of
\* the hash table, which the program does not determine.
ItemEffortsOf(items, title) ==
    LET idx == {k \in DOMAIN items : items[k].title = title}
        ord == KeysInOrder(idx)
    IN  [key |-> title,
         efforts |-> [j \in DOMAIN ord |->
                         [start |-> items[ord[j]].start, end |-> items[ord[j]].end]]]

ItemDetailView_new(items) ==
    LET keys == {items[k].title : k \in DOMAIN items}
    IN  {[j \in DOMAIN order |-> ItemEffortsOf(items, order[j])] :
            order \in Permutations_(keys)}

\* DailyDetailView::new and its listing by fmt: for each date in key order,
\* the titles of the date in key order with the sum of their durations.
RECURSIVE TitleDuration(_, _, _, _)
TitleDuration(items, k, date, title) ==
    IF k > Len(items) THEN 0
    ELSE (IF date_naive(items[k].start) = date /\ items[k].title = title
          THEN items[k].end - items[k].start ELSE 0)
         + TitleDuration(items, k + 1, date, title)

DailyDetailView_new(items) ==
    LET dates == KeysInOrder({date_naive(items[k].start) : k \in DOMAIN items})
        TitlesOn(d) == {TitleRank[items[k].title] :
                           k \in {x \in DOMAIN items : date_naive(items[x].start) = d}}
        TitleOfRank(n) == CHOOSE t \in Titles : TitleRank[t] = n
    IN  [j \in DOMAIN dates |->
            [date |-> dates[j],
             detail |-> LET ranks == KeysInOrder(TitlesOn(dates[j]))
                        IN  [i \in DOMAIN ranks |->
                                [title |-> TitleOfRank(ranks[i]),
                                 duration |-> TitleDuration(items, 1, dates[j],
                                                            TitleOfRank(ranks[i]))]]]]

\* The window of DailyDistributionView::new and the title of its idle spans.
day_start_time == from_hms(8, 0, 0)
day_end_time == from_hms(21, 0, 0)
idle_title == "<idle>"

\* efforts.sort(): stable, by start (Ord of EffortWithTitle compares start).
RECURSIVE SortedInsert(_, _)
\* Variant: no sort, the efforts stay in the order of the slice.
SortedInsert_Append(sorted, eff) == Append(sorted, eff)

SortedInsert(sorted, eff) ==
    IF sorted = <<>> THEN <<eff>>
    ELSE IF sorted[Len(sorted)].start <= eff.start THEN Append(sorted, eff)
    ELSE Append(SortedInsert(SubSeq(sorted, 1, Len(sorted) - 1), eff), sorted[Len(sorted)])
RECURSIVE SortEfforts(_, _)
SortEfforts(efforts, k) ==
    IF k = 0 THEN <<>> ELSE SortedInsert(SortEfforts(efforts, k - 1), efforts[k])

\* The efforts of a date in the order of the slice (push).
EffortsOn(items, date) ==
    LET ord == KeysInOrder({k \in DOMAIN items : date_naive(items[k].start) = date})
    IN  [j \in DOMAIN ord |-> [start |-> items[ord[j]].start, end |-> items[ord[j]].end,
                               title |-> items[ord[j]].title]]

\* The loop body: current_dt becomes eff.end inside `if current_dt < start`.
NextCurrent(current_dt, eff) == IF current_dt < eff.start THEN eff.end ELSE current_dt

\* for eff in efforts.iter(): with_idles_sorted and current_dt from effort k on.
RECURSIVE WithIdles(_, _, _, _)
WithIdles(efforts, k, current_dt, acc) ==
    IF k > Len(efforts) THEN [current_dt |-> current_dt, spans |-> acc]
    ELSE LET eff == efforts[k]
             idle == [start |-> current_dt, end |-> eff.start, title |-> idle_title]
         IN  WithIdles(efforts, k + 1, NextCurrent(current_dt, eff),
                       IF current_dt < eff.start
                       THEN Append(Append(acc, idle), eff)
                       ELSE Append(acc, eff))

\* DailyDistributionView::new: for every date on which an item starts, its
\* sorted efforts with the idle spans, and the idle span up to day_end.
DailyDistributionView_new(items) ==
    LET dates == {date_naive(items[k].start) : k \in DOMAIN items}
    IN  [date \in dates |->
            LET efforts == SortEfforts(EffortsOn(items, date), Len(EffortsOn(items, date)))
                walked == WithIdles(efforts, 1, and_time(date, day_start_time), <<>>)
                day_end_dt == and_time(date, day_end_time)
            IN  IF walked.current_dt < day_end_dt
                THEN Append(walked.spans,
                            [start |-> walked.current_dt, end |-> day_end_dt,
                             title |-> idle_title])
                ELSE walked.spans]

\* What building and listing a view of the slice may give.
ViewOutputs(op, items) ==
    CASE op = "DailySummaryView" -> {DailySummaryView_fmt(DailySummaryView_new(items))}
      [] op = "ItemDetailView" -> ItemDetailView_new(items)
      [] op = "DailyDetailView" -> {DailyDetailView_new(items)}
      [] op = "DailyDistributionView" -> {DailyDistributionView_new(items)}

ViewCall(op, items, out) ==
    /\ last = NoCall
    /\ last' = [op |-> op, items |-> items, out |-> out, built |-> 1, again |-> out]
    /\ prev' = rows
    /\ UNCHANGED <<rows, now, procs, mutex>>

\* A report with view_type "daily".
report_daily ==
    /\ last = NoCall
    /\ \E items \in ItemSlices :
           ViewCall("DailySummaryView", items, DailySummaryView_fmt(DailySummaryView_new(items)))

\* A report with view_type "detail".
report_detail ==
    /\ last = NoCall
    /\ \E items \in ItemSlices : \E out \in ItemDetailView_new(items) :
           ViewCall("ItemDetailView", items, out)

\* A report with view_type "dist".
report_dist ==
    /\ last = NoCall
    /\ \E items \in ItemSlices :
           ViewCall("DailyDistributionView", items, DailyDistributionView_new(items))

\* A report with any other view_type.
report_daily_detail ==
    /\ last = NoCall
    /\ \E items \in ItemSlices :
           ViewCall("DailyDetailView", items, DailyDetailView_new(items))

\* The same view is built and listed once more from the same slice.
report_again ==
    /\ last # NoCall
    /\ last.op \in {"DailySummaryView", "ItemDetailView", "DailyDetailView",
                    "DailyDistributionView"}
    /\ last.built = 1
    /\ \E out \in ViewOutputs(last.op, last.items) :
           last' = [last EXCEPT !.built = 2, !.again = out]
    /\ UNCHANGED <<rows, now, prev, procs, mutex>>

\* ------------------------------------------------ reports by date strings
\* The day_start / day_end texts of the model:
\* "2023-01-01", "2023-01-02", "2024-02-29", "2023-02-29",
\* "2023-13-01", "2023/01/01", "", "2023-01"
DateStrs ==
    {<<50, 48, 50, 51, 45, 48, 49, 45, 48, 49>>,
     <<50, 48, 50, 51, 45, 48, 49, 45, 48, 50>>,
     <<50, 48, 50, 52, 45, 48, 50, 45, 50, 57>>,
     <<50, 48, 50, 51, 45, 48, 50, 45, 50, 57>>,
     <<50, 48, 50, 51, 45, 49, 51, 45, 48, 49>>,
     <<50, 48, 50, 51, 47, 48, 49, 47, 48, 49>>,
     <<>>,
     <<50, 48, 50, 51, 45, 48, 49>>}

\* The UTC offsets (seconds) the local time zone may have.
Offsets == {0, 3600}

RECURSIVE DigitsValue(_)
DigitsValue(t) == IF Len(t) = 0 THEN 0
                  ELSE 10 * DigitsValue(SubSeq(t, 1, Len(t) - 1)) + (t[Len(t)] - 48)

IsLeap(y) == (y % 4 = 0 /\ y % 100 # 0) \/ y % 400 = 0
DaysInMonth(y, m) ==
    IF m = 2 THEN (IF IsLeap(y) THEN 29 ELSE 28)
    ELSE IF m \in {4, 6, 9, 11} THEN 30 ELSE 31
RECURSIVE DaysBeforeMonth(_, _)
DaysBeforeMonth(y, m) ==
    IF m = 1 THEN 0 ELSE DaysBeforeMonth(y, m - 1) + DaysInMonth(y, m - 1)
\* The number of the day (y, m, d), counted from 1970-01-01.
DaysBeforeYear(y) ==
    365 * (y - 1) + ((y - 1) \div 4) - ((y - 1) \div 100) + ((y - 1) \div 400)
DayNumber(y, m, d) ==
    DaysBeforeYear(y) - DaysBeforeYear(1970) + DaysBeforeMonth(y, m) + (d - 1)

\* NaiveDate::parse_from_str(text, "%Y-%m-%d") on a text of four, two and
\* two digits: Err unless the text has that shape and names a day of the
\* calendar.
parse_from_str(text) ==
    LET shaped == /\ Len(text) = 10
                  /\ text[5] = 45 /\ text[8] = 45
                  /\ \A k \in {1, 2, 3, 4, 6, 7, 9, 10} : text[k] \in 48..57
        y == DigitsValue(SubSeq(text, 1, 4))
        m == DigitsValue(SubSeq(text, 6, 7))
        d == DigitsValue(SubSeq(text, 9, 10))
    IN  IF shaped /\ y >= 1 /\ m \in 1..12 /\ d \in 1..DaysInMonth(y, m)
        THEN [ok |-> TRUE, date |-> DayNumber(y, m, d)]
        ELSE [ok |-> FALSE, date |-> 0]

\* Variant: `end_date <= start_date`.
RangeInvalid_Equal(start_date, end_date) == end_date <= start_date

\* if end_date < start_date
RangeInvalid(start_date, end_date) == end_date < start_date

\* DateTime::<FixedOffset>::from_local(date.and_hms_opt(h, m, s), offset)
\* .with_timezone(&Utc), in seconds since 1970-01-01T00:00:00Z.
from_local(date, h, m, s, offset) == date * 86400 + h * 3600 + m * 60 + s - offset

\* ClockingStore::finished_by_date_str: the error, or the call of finished
\* with the bounds of the range (queried tells whether the store was
\* queried).
finished_by_date_str ==
    last = NoCall /\ \E day_start \in DateStrs, day_end \in DateStrs, offset \in Offsets :
    LET start_date == parse_from_str(day_start)
        end_date == parse_from_str(day_end)
        err == \/ ~start_date.ok
               \/ ~end_date.ok
               \/ RangeInvalid(start_date.date, end_date.date)
    IN  /\ last = NoCall
        /\ last' = [op |-> "finished_by_date_str", day_start |-> day_start,
                    day_end |-> day_end, offset |-> offset,
                    result |-> IF err THEN "Err(InvalidInput)" ELSE "Ok",
                    queried |-> ~err,
                    query_start |-> IF err THEN -1
                                    ELSE from_local(start_date.date, 0, 0, 0, offset),
                    query_end |-> IF err THEN -1
                                  ELSE from_local(end_date.date, 23, 59, 59, offset)]
        /\ prev' = rows
        /\ UNCHANGED <<rows, now, procs, mutex>>

\* NaiveDateTime::checked_sub_days / checked_add_days on day numbers (the
\* dates of the model are far from the ends of the calendar, where they
\* return None).
\* Variant: the date is left where it is.
checked_sub_days_None(date, days) == date

checked_sub_days(date, days) == date - days

checked_add_days(date, days) == date + days

\* The clock readings of Local::now(), in seconds since
\* 1970-01-01T00:00:00Z: around the midnights before and after 2024-02-29.
Clocks == {DayNumber(2024, 2, 29) * 86400 - 1, DayNumber(2024, 2, 29) * 86400,
           DayNumber(2024, 2, 29) * 86400 + 45000, DayNumber(2024, 3, 1) * 86400 - 3600,
           DayNumber(2024, 3, 1) * 86400 - 1}
OptDays == {None} \cup (0..MaxDays)

\* Local::now().date_naive(): the local date of the clock reading.
local_date_naive(clock, offset) == (clock + offset) \div 86400

\* store_helper::query_start_end.
query_start_end(clock, offset, days_offset, days) ==
    LET today_naive == local_date_naive(clock, offset)
        local_fixed_offset == offset
        start_naive == checked_sub_days(today_naive, days_offset)
        start_in_utc == from_local(start_naive, 0, 0, 0, local_fixed_offset)
        end_in_utc == IF days = None THEN None
                      ELSE from_local(checked_add_days(start_naive, days), 0, 0, 0,
                                      local_fixed_offset)
    IN  <<start_in_utc, end_in_utc>>

\* finished_by_offset up to its call of finished: the bounds it resolves,
\* and the end finished queries with (its own reading of the clock, taken
\* `later` seconds after the first, when the end is None).
call_query_start_end ==
    /\ last = NoCall
    /\ \E clock \in Clocks, offset \in Offsets, days_offset \in 0..MaxDays,
          days \in OptDays, later \in {0, 1} :
           LET bounds == query_start_end(clock, offset, days_offset, days)
           IN  last' = [op |-> "finished_by_offset", clock |-> clock, offset |-> offset,
                        days_offset |-> days_offset, days |-> days,
                        query_start |-> bounds[1], query_end |-> bounds[2],
                        end_queried |-> IF bounds[2] = None THEN clock + later
                                        ELSE bounds[2]]
    /\ prev' = rows
    /\ UNCHANGED <<rows, now, procs, mutex>>

NextViews ==
    \/ Return
    \/ call_strify_duration
    \/ report_daily
    \/ report_detail
    \/ report_dist
    \/ report_daily_detail
    \/ report_again
    \/ finished_by_date_str
    \/ call_query_start_end

SpecViews == Init /\ [][NextViews]_vars

\* ---------------------------------- the listing of DailyDistributionView

\* .filter(|eff| eff.0.span().num_minutes() > 0)
Listed(eff) == num_minutes(eff.end - eff.start) > 0

RECURSIVE FilterListed(_, _)
FilterListed(efforts, k) ==
    IF k = 0 THEN <<>>
    ELSE IF Listed(efforts[k]) THEN Append(FilterListed(efforts, k - 1), efforts[k])
    ELSE FilterListed(efforts, k - 1)

\* fmt of DailyDistributionView: for every date the efforts it writes a line
\* for, all of them in the alternate form.
DailyDistributionView_fmt(view, alternate) ==
    [date \in DOMAIN view |->
        IF alternate THEN view[date] ELSE FilterListed(view[date], Len(view[date]))]

\* Entries that start before, at and after the ends of the window, one of
\* them half a minute long.
DistClockTimes == {from_hms(7, 0, 0), from_hms(8, 0, 0), from_hms(8, 0, 30),
                   from_hms(22, 0, 0), from_hms(23, 0, 0)}
DistItems ==
    {i \in {[title |-> t, start |-> and_time(d, a), end |-> and_time(d, b)] :
                t \in Titles, d \in ViewDates, a \in DistClockTimes, b \in DistClockTimes} :
        i.start < i.end}
DistSlices == UNION {[1..n -> DistItems] : n \in 0..MaxItems}

\* A distribution view built from a slice and written with {} or {:#}.
print_distribution ==
    /\ last = NoCall
    /\ \E items \in DistSlices, alternate \in BOOLEAN :
           LET view == DailyDistributionView_new(items)
           IN  last' = [op |-> "DailyDistributionView::fmt", items |-> items,
                        alternate |-> alternate, view |-> view,
                        out |-> DailyDistributionView_fmt(view, alternate)]
    /\ prev' = rows
    /\ UNCHANGED <<rows, now, procs, mutex>>

NextDist ==
    \/ Return
    \/ print_distribution

SpecDist == Init /\ [][NextDist]_vars

\* ------------------------------------------------ entries started with notes
\* Notes an UnfinishedEntry given to start_entry carries ("s").
EntryNotes == {<<115>>}

start_entry_with_notes == \E title \in Titles, start_time \in Times, notes \in EntryNotes :
    StartEntry(title, start_time, notes)

NextNotes ==
    \/ Return
    \/ Tick
    \/ start_entry_with_notes
    \/ try_finish_title
    \/ try_finish_any
    \/ try_finish_entry

\* The store when every entry is started with notes.
SpecNotes == Init /\ [][NextNotes]_vars

\* ============================================================== claims
\* Readings of a table used by the properties below.
StartOf(r) == parse_from_rfc3339(r.start)
EndOf(r) == parse_from_rfc3339(r.end)
Unfinished(rs) == {i \in Ids(rs) : rs[i].end = NULL}
Finished(rs) == {i \in Ids(rs) : rs[i].end # NULL}
\* Rows of rs with the key (title, start instant).
WithKey(rs, title, t) == {i \in Ids(rs) : rs[i].title = title /\ StartOf(rs[i]) = t}
\* Rows the last call changed or added.
Changed == {i \in Ids(rows) : i \notin Ids(prev) \/ rows[i] # prev[i]}

\* C1: at most one entry of the store is unfinished (end unset) at any time.
C1_AtMostOneUnfinished == Cardinality(Unfinished(rows)) <= 1

\* C2: while some entry is unfinished, a start call (with a key not yet in the
\* store) fails with UnfinishedExists and inserts no row.
C2_StartFailsWhileUnfinished ==
    (/\ last.op = "start_entry"
     /\ Unfinished(prev) # {}
     /\ WithKey(prev, last.title, last.start) = {})
        => (last.result = "Err(UnfinishedExists)" /\ rows = prev)

\* C3: starting an entry whose (title, start) pair is already in the store,
\* finished or not, fails with DuplicateEntry and leaves the store unchanged.
C3_DuplicateStartRejected ==
    (last.op = "start_entry" /\ WithKey(prev, last.title, last.start) # {})
        => (last.result = "Err(DuplicateEntry)" /\ rows = prev)

\* C3 witness: a start of the key of an already finished entry was rejected.
C3_Witness ==
    /\ last.op = "start_entry"
    /\ last.result = "Err(DuplicateEntry)"
    /\ WithKey(prev, last.title, last.start) \cap Finished(prev) # {}

\* C4: no two rows of the store share the same (title, start) pair.
C4_KeyUnique ==
    \A i, j \in Ids(rows) :
        (rows[i].title = rows[j].title /\ StartOf(rows[i]) = StartOf(rows[j])) => i = j

\* C4 witness: the store holds two entries of one title, and a start of the key
\* of a finished one has just been turned down.
C4_Witness ==
    /\ Len(rows) >= 2
    /\ rows[1].title = rows[2].title
    /\ last.op = "start_entry"
    /\ last.result = "Err(DuplicateEntry)"
    /\ WithKey(rows, last.title, last.start) \cap Finished(rows) # {}

\* C5: try_finish_entry on an id that is finished already or not in the store
\* returns Ok(false) and leaves the store unchanged (so does every repetition
\* after a successful finish).
C5_FinishEntryNoOp ==
    (/\ last.op = "try_finish_entry"
     /\ WithKey(prev, last.title, last.start) \cap Unfinished(prev) = {})
        => (last.result = "Ok(false)" /\ rows = prev)

\* C5 witness: try_finish_entry with an end after the start, on a finished entry.
C5_Witness ==
    /\ last.op = "try_finish_entry"
    /\ last.end > last.start
    /\ WithKey(prev, last.title, last.start) # {}
    /\ WithKey(prev, last.title, last.start) \subseteq Finished(prev)
    /\ last.result = "Ok(false)"

\* C6: try_finish_entry finishes only an unfinished entry and only with an end
\* strictly after its start; with end <= start it returns Ok(false) and changes
\* nothing.
C6_FinishEntryNeedsLaterEnd ==
    last.op = "try_finish_entry" =>
        /\ last.result = "Ok(true)" =>
              /\ last.end > last.start
              /\ WithKey(prev, last.title, last.start) \cap Unfinished(prev) # {}
        /\ last.end <= last.start => (last.result = "Ok(false)" /\ rows = prev)

\* C6 witness: try_finish_entry of an unfinished entry with end = start.
C6_Witness ==
    /\ last.op = "try_finish_entry"
    /\ last.end = last.start
    /\ WithKey(prev, last.title, last.start) \cap Unfinished(prev) # {}
    /\ last.result = "Ok(false)"
    /\ rows = prev

\* C7: every finished entry of the store has its end strictly after its start.
C7_EndAfterStart == \A i \in Finished(rows) : EndOf(rows[i]) > StartOf(rows[i])

\* C8: a finished row is never changed again: no call changes its title, start,
\* end or notes, or unsets its end.
C8_FinishedImmutable ==
    \A i \in Finished(prev) : i \in Ids(rows) /\ rows[i] = prev[i]

\* C8 witness: a finish by title succeeded while an entry of that title was
\* finished already.
C8_Witness ==
    /\ last.op = "try_finish_title"
    /\ last.result = "Ok(true)"
    /\ \E i \in Finished(prev) : prev[i].title = last.title

\* C9: try_finish_title finishes the unfinished entry of that title with the
\* greatest start.
C9_FinishTitleLatestStarted ==
    (last.op = "try_finish_title" /\ last.result = "Ok(true)") =>
        \E i \in Unfinished(prev) :
            /\ prev[i].title = last.title
            /\ i \in Finished(rows)
            /\ \A j \in Unfinished(prev) :
                   prev[j].title = last.title => StartOf(prev[j]) <= StartOf(prev[i])

\* C10: try_finish_title returns Ok(true) and finishes exactly one entry, one
\* of that title, when an unfinished entry has the title; otherwise it returns
\* Ok(false) and leaves the store unchanged.
C10_FinishTitleResult ==
    last.op = "try_finish_title" =>
        LET U == {i \in Unfinished(prev) : prev[i].title = last.title}
        IN  IF U # {}
            THEN /\ last.result = "Ok(true)"
                 /\ Len(rows) = Len(prev)
                 /\ Cardinality(Changed) = 1
                 /\ Changed \subseteq U
                 /\ Changed \subseteq Finished(rows)
            ELSE last.result = "Ok(false)" /\ rows = prev

\* C10 witness: two unfinished entries had the title; one of them is left.
C10_Witness ==
    /\ last.op = "try_finish_title"
    /\ last.result = "Ok(true)"
    /\ \E i \in Unfinished(rows) : rows[i].title = last.title

\* C11: try_finish_any returns Ok(Some(t)) exactly when an entry is unfinished,
\* t being the title of the entry it finished, which is the unfinished entry
\* with the greatest start; otherwise it returns Ok(None) and changes nothing.
C11_FinishAnyLatestStarted ==
    last.op = "try_finish_any" =>
        IF Unfinished(prev) = {}
        THEN last.result = "Ok(None)" /\ rows = prev
        ELSE /\ last.result = "Ok(Some)"
             /\ \E i \in Unfinished(prev) :
                    /\ i \in Finished(rows)
                    /\ last.some = prev[i].title
                    /\ \A j \in Unfinished(prev) : StartOf(prev[j]) <= StartOf(prev[i])

FinishOps == {"try_finish_title", "try_finish_any", "try_finish_entry"}

\* C12: a finish appends its notes to the notes of the entry: an unfinished
\* entry holds the notes given at start, and the entry a finish call changed
\* holds them followed by the notes given to the finish.
C12_NotesAppended ==
    /\ \A i \in Unfinished(rows) : rows[i].notes \in EntryNotes
    /\ last.op \in FinishOps =>
           \A i \in Changed : rows[i].notes = prev[i].notes \o last.notes

\* C12 witness: a finish call has finished an entry started with notes.
C12_Witness ==
    /\ last.op \in FinishOps
    /\ \E i \in Changed :
           /\ prev[i].notes # <<>>
           /\ last.notes # <<>>
           /\ rows[i].notes = prev[i].notes \o last.notes

EntryOf(r) == [title |-> r.title, start |-> StartOf(r), end |-> EndOf(r), notes |-> r.notes]
QueryEnd == IF last.end = None THEN now ELSE last.end
Returned(r) == \E k \in DOMAIN last.out : last.out[k] = EntryOf(r)

\* C14: finished() never returns an entry whose end is unset: every entry it
\* returns has an end and is the value of a finished row.
C14_FinishedHaveEnd ==
    last.op = "finished" =>
        /\ last.result = "Ok"
        /\ \A k \in DOMAIN last.out :
               /\ last.out[k].end \in Times
               /\ \E i \in Finished(prev) : last.out[k] = EntryOf(prev[i])

\* C14 witness: finished(query_start, None) while an unfinished entry starts
\* in the range.
C14_Witness ==
    /\ last.op = "finished"
    /\ last.end = None
    /\ last.result = "Ok"
    /\ \E i \in Unfinished(prev) : last.start <= StartOf(prev[i]) /\ StartOf(prev[i]) <= now

C17_NoImpossibleState ==
    /\ last.result # "Err(ImpossibleState)"
    /\ (last.op = "start_entry" /\ last.result = "Ok(())") =>
           (Len(rows) = Len(prev) + 1 /\ Cardinality(Changed) = 1)
    /\ last.op \in FinishOps =>
           (Len(rows) = Len(prev) /\ Cardinality(Changed) <= 1)

\* C17 witness: try_finish_any found two unfinished entries and finished one.
C17_Witness ==
    /\ last.op = "try_finish_any"
    /\ Cardinality(Unfinished(prev)) >= 2
    /\ Cardinality(Changed) = 1
    /\ last.result = "Ok(Some)"
\* The titles that have a finished entry, and the latest start among the
\* finished entries of a title.
FinishedTitles == {prev[i].title : i \in Finished(prev)}
MaxStart(title) ==
    SetMax({StartOf(prev[i]) : i \in {j \in Finished(prev) : prev[j].title = title}})

\* C18: recent_titles(limit) returns at most limit titles, each distinct and
\* each the title of a finished entry, latest finished start first; a title
\* is left out only when limit titles as recent or more recent are returned.
C18_RecentTitles ==
    last.op = "recent_titles" =>
        LET out == last.out
        IN  /\ last.result = "Ok"
            /\ Len(out) <= last.limit
            /\ \A a, b \in DOMAIN out : a # b => out[a] # out[b]
            /\ \A k \in DOMAIN out : out[k] \in FinishedTitles
            /\ \A a, b \in DOMAIN out : a < b => MaxStart(out[a]) >= MaxStart(out[b])
            /\ \A t \in FinishedTitles :
                   (\A k \in DOMAIN out : out[k] # t) =>
                       /\ Len(out) = last.limit
                       /\ \A k \in DOMAIN out : MaxStart(out[k]) >= MaxStart(t)

\* C18 witness: one title has a finished entry, another only an unfinished
\* one, and recent_titles returns the first alone although limit allows two.
C18_Witness ==
    /\ last.op = "recent_titles"
    /\ last.limit = 2
    /\ Len(last.out) = 1
    /\ \E i \in Unfinished(prev) : prev[i].title \notin FinishedTitles

\* C19: latest_finished(title) returns the finished entry of exactly that
\* title with the greatest start, and None when no finished entry has the
\* title, whether or not an unfinished entry has it.
C19_LatestFinished ==
    last.op = "latest_finished" =>
        LET F == {i \in Finished(prev) : prev[i].title = last.title}
        IN  IF F = {}
            THEN last.result = "Ok(None)" /\ last.out = <<>>
            ELSE /\ last.result = "Ok(Some)"
                 /\ Len(last.out) = 1
                 /\ \E i \in F : /\ last.out[1] = EntryOf(prev[i])
                                 /\ \A j \in F : StartOf(prev[j]) <= StartOf(prev[i])

\* C19 witness: None is returned for a title that has an unfinished entry
\* while another title has a finished one.
C19_Witness ==
    /\ last.op = "latest_finished"
    /\ last.result = "Ok(None)"
    /\ \E i \in Unfinished(prev) : prev[i].title = last.title
    /\ Finished(prev) # {}
\* C20: a start with an empty title is rejected with InvalidInput and no
\* row with an empty title is ever inserted.
C20_EmptyTitleRejected ==
    /\ \A i \in Ids(rows) : rows[i].title # ""
    /\ (last.op = "start_entry" /\ last.title = "") =>
           (last.result = "Err(InvalidInput)" /\ rows = prev)
\* A request is inside its store calls between lock() and the drop of its
\* guard.
InStore(r) == procs[r].pc \in {"select", "insert", "update", "query", "unlock"}

\* C21: a handler holds the one lock from before its first store call until
\* after its last: at most one request is inside store calls, it is the
\* holder, and the table a start found without its key still has no such
\* row when the start inserts.
C21_StoreCallsSerialized ==
    /\ \A r \in Requests : InStore(r) => mutex = r
    /\ \A r1, r2 \in Requests : (InStore(r1) /\ InStore(r2)) => r1 = r2
    /\ \A r \in Requests :
           procs[r].pc = "insert" =>
               SelectByKey(rows, procs[r].title, to_rfc3339(procs[r].start)) = {}

\* C21 witness: a start is between its SELECT and its INSERT while another
\* start request for the same title waits in lock().
C21_Witness ==
    \E r1, r2 \in Requests :
        /\ procs[r1].pc = "insert"
        /\ procs[r2].pc = "lock"
        /\ procs[r2].handler = "api_start"
        /\ procs[r2].title = procs[r1].title

C22_StartAtomic ==
    /\ \A c \in Requests :
           (procs[c].pc = "insert" /\ procs[c].handler = "start_entry") =>
               SelectByKey(rows, procs[c].title, to_rfc3339(procs[c].start)) = {}
    /\ \A i, j \in Ids(rows) :
           (rows[i].title = rows[j].title /\ rows[i].start = rows[j].start) => i = j
\* The text of a decimal number without sign, and its value.
IsDigits(t) == Len(t) >= 1 /\ \A k \in DOMAIN t : t[k] \in 48..57
RECURSIVE Value(_)
Value(t) == IF Len(t) = 0 THEN 0
            ELSE 10 * Value(SubSeq(t, 1, Len(t) - 1)) + (t[Len(t)] - 48)
\* The fields of a text between its colons.
Colons(t) == {k \in DOMAIN t : t[k] = 58}
FieldsOf(t) ==
    LET cut == KeysInOrder(Colons(t))
        n == Len(cut)
    IN  [f \in 1..(n + 1) |->
            SubSeq(t, IF f = 1 THEN 1 ELSE cut[f - 1] + 1,
                      IF f = n + 1 THEN Len(t) ELSE cut[f] - 1)]

\* C29: strify_duration renders m minutes as 0:MM below an hour, H:MM below
\* a day and D:HH:MM from a day on; the fields give back m, hours below 24,
\* minutes below 60, every field but the first of two digits and the first
\* without a leading zero.
C29_StrifyDuration ==
    last.op = "strify_duration" =>
        LET m == last.minutes
            f == FieldsOf(last.out)
            n == Len(f)
        IN  /\ \A k \in 1..n : IsDigits(f[k])
            /\ \A k \in 2..n : Len(f[k]) = 2
            /\ Len(f[1]) > 1 => f[1][1] # 48
            /\ n = IF m < 1440 THEN 2 ELSE 3
            /\ m < 60 => f[1] = <<48>>
            /\ Value(f[n]) < 60
            /\ n = 2 => Value(f[1]) * 60 + Value(f[2]) = m
            /\ n = 3 => /\ Value(f[2]) < 24
                        /\ Value(f[1]) * 1440 + Value(f[2]) * 60 + Value(f[3]) = m

\* C29 witness: a duration of more than a day with hours and minutes below
\* ten is rendered.
C29_Witness ==
    /\ last.op = "strify_duration"
    /\ last.minutes >= 1440
    /\ (last.minutes % 1440) \div 60 \in 1..9
    /\ last.minutes % 60 \in 1..9

\* The sum of the durations of the items of a slice at the indices K.
RECURSIVE SumDurations(_, _)
SumDurations(items, K) ==
    IF K = {} THEN 0
    ELSE LET k == CHOOSE x \in K : TRUE
         IN  (items[k].end - items[k].start) + SumDurations(items, K \ {k})
OnDate(items, d) == {k \in DOMAIN items : date_naive(items[k].start) = d}

\* C24: Daily Summary holds, for each local date on which an entry starts,
\* the sum of the durations of the entries starting on it; it prints one
\* line per date, and the total of all entries only when there is more
\* than one date.
C24_DailySummary ==
    last.op = "DailySummaryView" =>
        LET items == last.items
            view == DailySummaryView_new(items)
            dates == {date_naive(items[k].start) : k \in DOMAIN items}
        IN  /\ DOMAIN view = dates
            /\ \A d \in dates : view[d] = SumDurations(items, OnDate(items, d))
            /\ Len(last.out.lines) = Cardinality(dates)
            /\ \A k \in DOMAIN last.out.lines :
                   /\ last.out.lines[k].date \in dates
                   /\ last.out.lines[k].text =
                          strify_duration(SumDurations(items, OnDate(items, last.out.lines[k].date)) \div 60)
                   /\ \A j \in DOMAIN last.out.lines :
                          j < k => last.out.lines[j].date < last.out.lines[k].date
            /\ last.out.total =
                   IF Cardinality(dates) > 1
                   THEN <<strify_duration(SumDurations(items, DOMAIN items) \div 60)>>
                   ELSE <<>>

\* C24 witness: a summary of entries on two dates, with its total line.
C24_Witness ==
    /\ last.op = "DailySummaryView"
    /\ Len(last.items) = 2
    /\ Len(last.out.lines) = 2
    /\ Len(last.out.total) = 1
\* C25: entries A 08:00-09:00 and B 10:00-10:30 of one day give the spans
\* A(08:00-09:00), idle(09:00-10:00), B(10:00-10:30), idle(10:30-21:00).
C25_DistributionScenario ==
    (/\ last.op = "DailyDistributionView"
     /\ last.items = <<[title |-> "A", start |-> 28800, end |-> 32400],
                       [title |-> "B", start |-> 36000, end |-> 37800]>>)
        => /\ DOMAIN last.out = {0}
           /\ last.out[0] = <<[start |-> 28800, end |-> 32400, title |-> "A"],
                              [start |-> 32400, end |-> 36000, title |-> "<idle>"],
                              [start |-> 36000, end |-> 37800, title |-> "B"],
                              [start |-> 37800, end |-> 75600, title |-> "<idle>"]>>

\* The entries of a slice that start on one date do not overlap.
NonOverlapping(items) ==
    \A a, b \in DOMAIN items :
        (a # b /\ date_naive(items[a].start) = date_naive(items[b].start)) =>
            (items[a].end <= items[b].start \/ items[b].end <= items[a].start)

\* C26: for entries inside the window that do not overlap, the spans of
\* each date run from the start of the window to its end, each span
\* beginning where the one before it ends.
C26_DistributionPartition ==
    (last.op = "DailyDistributionView" /\ NonOverlapping(last.items)) =>
        \A date \in DOMAIN last.out :
            LET spans == last.out[date]
            IN  /\ Len(spans) >= 1
                /\ spans[1].start = date * 86400 + 28800
                /\ spans[Len(spans)].end = date * 86400 + 75600
                /\ \A k \in 1..(Len(spans) - 1) : spans[k].end = spans[k + 1].start

\* C27: a date of the report on which no entry starts has exactly one span,
\* an idle span over the whole window.
C27_EmptyDayIsIdle ==
    last.op = "DailyDistributionView" =>
        \A date \in ViewDates :
            (\A k \in DOMAIN last.items : date_naive(last.items[k].start) # date) =>
                /\ date \in DOMAIN last.out
                /\ last.out[date] = <<[start |-> date * 86400 + 28800,
                                       end |-> date * 86400 + 75600,
                                       title |-> "<idle>"]>>

\* C28: a view built and listed twice from the same slice gives the same
\* output both times, and building it leaves the store as it was.
C28_ViewsDeterministic ==
    (last.op \in {"DailySummaryView", "ItemDetailView", "DailyDetailView",
                  "DailyDistributionView"}) =>
        /\ rows = prev
        /\ last.built = 2 => last.again = last.out
\* The yyyy-mm-dd texts that name a day, with the number of days from
\* 2023-01-01 to the day.
DayOfText ==
    [t \in {<<50, 48, 50, 51, 45, 48, 49, 45, 48, 49>>,
            <<50, 48, 50, 51, 45, 48, 49, 45, 48, 50>>,
            <<50, 48, 50, 52, 45, 48, 50, 45, 50, 57>>} |->
        IF t = <<50, 48, 50, 51, 45, 48, 49, 45, 48, 49>> THEN 0
        ELSE IF t = <<50, 48, 50, 51, 45, 48, 49, 45, 48, 50>> THEN 1 ELSE 424]

C35_FinishFrame ==
    (last.op \in FinishOps /\ last.result \in {"Ok(true)", "Ok(Some)"}) =>
        /\ Len(rows) = Len(prev)
        /\ Cardinality(Changed) = 1
        /\ \A i \in Changed :
               /\ rows[i].title = prev[i].title
               /\ rows[i].start = prev[i].start
               /\ prev[i].end = NULL
               /\ rows[i].end = to_rfc3339(last.end)
               /\ rows[i].notes = IfNull(prev[i].notes) \o last.notes
        /\ \A i \in Ids(prev) \ Changed : rows[i] = prev[i]

\* C35 witness: try_finish_any finished one of two unfinished rows and the
\* other one is as it was.
C35_Witness ==
    /\ last.op = "try_finish_any"
    /\ last.result = "Ok(Some)"
    /\ Len(prev) = 2
    /\ Unfinished(prev) = {1, 2}
    /\ \E i \in Ids(prev) : rows[i] = prev[i] /\ rows[i].end = NULL

\* C36: the read operations (finished, also when reached through
\* finished_by_offset or finished_by_date_str, latest_finished, recent_titles,
\* unfinished) leave every row as it was; unfinished(limit) returns at most
\* limit entries, each the entry of a row whose end is unset, latest start
\* first, and no row left out starts after a returned one.
ReadOps == {"finished", "finished_by_date_str", "latest_finished", "recent_titles", "unfinished"}
C36_ReadsFrame ==
    /\ last.op \in ReadOps => rows = prev
    /\ last.op = "unfinished" =>
           /\ Len(last.out) <= last.limit
           /\ \A k \in DOMAIN last.out :
                  \E i \in Unfinished(prev) :
                      last.out[k] = [title |-> prev[i].title, start |-> StartOf(prev[i]),
                                     notes |-> IfNull(prev[i].notes)]
           /\ \A k \in DOMAIN last.out :
                  k + 1 \in DOMAIN last.out => last.out[k].start >= last.out[k + 1].start
           /\ Len(last.out) = IF Cardinality(Unfinished(prev)) < last.limit
                              THEN Cardinality(Unfinished(prev)) ELSE last.limit
           /\ \A i \in Unfinished(prev), k \in DOMAIN last.out :
                  StartOf(prev[i]) > last.out[k].start =>
                      \E j \in DOMAIN last.out : last.out[j].start = StartOf(prev[i])

\* C36 witness: unfinished(1) on two unfinished rows returned the later one
\* and left both as they were.
C36_Witness ==
    /\ last.op = "unfinished"
    /\ last.limit = 1
    /\ Len(last.out) = 1
    /\ Cardinality(Unfinished(prev)) = 2
    /\ \E i \in Unfinished(prev) : StartOf(prev[i]) < last.out[1].start
    /\ rows = prev

\* C31: finished_by_offset queries from local midnight of the date
\* days_offset days before today; with days = None up to the current time
\* (so days_offset = 0 gives today 00:00 up to now), with days = Some(d) up
\* to exactly d days after the start bound.  Local time is UTC plus the
\* offset the zone has today.
LocalDay(t) == (t + last.offset) \div 86400
C31_OffsetRange ==
    last.op = "finished_by_offset" =>
        /\ (last.query_start + last.offset) % 86400 = 0
        /\ LocalDay(last.query_start) = LocalDay(last.clock) - last.days_offset
        /\ last.days = None =>
               /\ last.query_end = None
               /\ last.end_queried \in {last.clock, last.clock + 1}
               /\ last.days_offset = 0 =>
                      /\ last.query_start <= last.clock
                      /\ last.clock - last.query_start < 86400
        /\ last.days # None =>
               /\ last.query_end = last.query_start + last.days * 86400
               /\ last.end_queried = last.query_end
        /\ rows = prev

\* C31 witness: today from 00:00 to now, asked one second before the UTC
\* date changes, in a zone where the local date already has.
C31_Witness ==
    /\ last.op = "finished_by_offset"
    /\ last.days = None
    /\ last.days_offset = 0
    /\ last.offset = 3600
    /\ last.clock = DayNumber(2024, 3, 1) * 86400 - 1
    /\ last.query_start = DayNumber(2024, 3, 1) * 86400 - 3600

\* How many times x occurs in the sequence seq.
Occurrences(seq, x) == Cardinality({k \in DOMAIN seq : seq[k] = x})
\* The entries of a slice that start on a date, as spans.
RealSpans(items, date) ==
    {[start |-> items[k].start, end |-> items[k].end, title |-> items[k].title] :
        k \in OnDate(items, date)}

\* C32: the default listing of Daily Distribution has a line for every real
\* span of a date; the spans it leaves out are idle spans of zero minutes or
\* less.
C32_DefaultListsReal ==
    (last.op = "DailyDistributionView::fmt" /\ ~last.alternate) =>
        \A date \in DOMAIN last.view :
            /\ \A x \in RealSpans(last.items, date) : Occurrences(last.out[date], x) >= 1
            /\ \A k \in DOMAIN last.view[date] :
                   Occurrences(last.out[date], last.view[date][k])
                       < Occurrences(last.view[date], last.view[date][k])
                   => /\ last.view[date][k].title = "<idle>"
                      /\ last.view[date][k].end - last.view[date][k].start < 60

\* C33: for valid real spans, the spans of a date are in non-decreasing
\* order of start, every real span occurs as often as the slice has it, and
\* every idle span ends after it starts.
C33_DistributionOrdered ==
    last.op = "DailyDistributionView::fmt" =>
        \A date \in DOMAIN last.view :
            LET spans == last.view[date]
            IN  /\ \A k \in 1..(Len(spans) - 1) : spans[k].start <= spans[k + 1].start
                /\ \A x \in RealSpans(last.items, date) :
                       Occurrences(spans, x) =
                           Cardinality({k \in OnDate(last.items, date) :
                                           last.items[k] = [title |-> x.title,
                                                            start |-> x.start,
                                                            end |-> x.end]})
                /\ \A k \in DOMAIN spans :
                       spans[k].title # "<idle>" => spans[k] \in RealSpans(last.items, date)
                /\ \A k \in DOMAIN spans :
                       spans[k].title = "<idle>" => spans[k].start < spans[k].end

\* C33 witness: two overlapping entries, the later one starting at the same
\* second as the one before it in the slice, with an idle span before them.
C33_Witness ==
    /\ last.op = "DailyDistributionView::fmt"
    /\ Len(last.items) = 2
    /\ last.items[1] = last.items[2]
    /\ last.items[1].start = 30 + 28800
    /\ 0 \in DOMAIN last.view
    /\ Len(last.view[0]) = 3
    /\ last.view[0][1].title = "<idle>"

\* C34: every idle span lies inside the window of its date, from 08:00 to
\* 21:00, also when an entry starts before the window or after it.
C34_IdleInsideWindow ==
    last.op = "DailyDistributionView::fmt" =>
        \A date \in DOMAIN last.view :
            \A k \in DOMAIN last.view[date] :
                last.view[date][k].title = "<idle>" =>
                    /\ last.view[date][k].start >= date * 86400 + 28800
                    /\ last.view[date][k].end <= date * 86400 + 75600

\* C37: when the start command prints "(Finished)", the one row it changed
\* is the entry the command started, which was unfinished until then, and
\* it now ends at the time of the finish with the notes entered appended.
C37_FinishesOwnEntry ==
    (last.op = "Commands::Start" /\ last.result = "(Finished)") =>
        /\ Changed = WithKey(prev, last.title, last.start)
        /\ Cardinality(Changed) = 1
        /\ \A i \in Changed :
               /\ prev[i].end = NULL
               /\ rows[i].end = to_rfc3339(last.end)
               /\ rows[i].notes = IfNull(prev[i].notes) \o last.notes

\* C38: a store call that fails in one handler does not stop later
\* requests: the lock is released after every request, failed ones
\* included, and no later request fails to acquire it.
C38_LaterRequestsServed ==
    /\ (\A r \in Requests : procs[r].pc \in {"idle", "lock", "done"}) => mutex \notin Requests
    /\ \A r \in Requests : procs[r].status # "PoisonError"
====
